---- MODULE Spec2Model ----
(***************************************************************************)
(* scripts/run_prompt.py: one run of the feed job.                         *)
(*                                                                         *)
(*   main -> call_llm -> _call_responses_with_retry -> (request, retry)    *)
(*        -> _extract_json (direct, fenced, bracket) -> schema checks      *)
(*        -> make_rss                                                      *)
(*                                                                         *)
(* A text is a sequence of symbols.  A symbol is one punctuation character *)
(* ("[", "]", "{", "}", ",", ":", the double quote), one whitespace        *)
(* character (" " or "\n"), a run of three backticks, a run of digits      *)
(* ("1") or a run of letters ("json", "title", "x", ...).  Every operation *)
(* of the program on text (json.loads, the two regular expressions,        *)
(* str.strip) treats a run of letters or digits as a unit, so the runs are *)
(* not split further.                                                      *)
(***************************************************************************)
EXTENDS Integers, Sequences, FiniteSets, TLC

Quote == "\""
\* the run of three backticks that opens or closes a fenced block
Fence == "FENCE"
WS == {" ", "\n"}

(***************************************************************************)
(* Python values produced by json.loads: str, int, list, dict.  A dict is  *)
(* a sequence of <<key, value>> pairs with distinct keys, in insertion     *)
(* order; a key is the text between its quotes.                            *)
(***************************************************************************)
Str(s) == [k |-> "str", s |-> s]
Num == [k |-> "num", n |-> 1]
Arr(e) == [k |-> "arr", e |-> e]
Obj(m) == [k |-> "obj", m |-> m]

IsList(v) == v.k = "arr"
IsDict(v) == v.k = "obj"
HasKey(d, key) == \E i \in 1..Len(d.m) : d.m[i][1] = <<key>>
Get(d, key) == d.m[CHOOSE i \in 1..Len(d.m) : d.m[i][1] = <<key>>][2]

\* dict[key] = val: a repeated key keeps its place and takes the last value
Put(m, key, val) ==
    IF \E i \in 1..Len(m) : m[i][1] = key
    THEN [i \in 1..Len(m) |-> IF m[i][1] = key THEN <<key, val>> ELSE m[i]]
    ELSE Append(m, <<key, val>>)

(***************************************************************************)
(* json.loads.  A parse step yields [ok, v, p]: the value and the position *)
(* after it; ok = FALSE stands for json.JSONDecodeError.                   *)
(***************************************************************************)
Fail == [ok |-> FALSE, p |-> 0]
Ok(v, p) == [ok |-> TRUE, v |-> v, p |-> p]

RECURSIVE SkipWs(_, _)
SkipWs(t, p) == IF p <= Len(t) /\ t[p] \in WS THEN SkipWs(t, p + 1) ELSE p

\* the position of the quote closing the string opened before position p
RECURSIVE CloseQuote(_, _)
CloseQuote(t, p) ==
    IF p > Len(t) THEN 0
    ELSE IF t[p] = Quote THEN p
    ELSE IF t[p] = "\n" THEN 0      \* control character inside a string
    ELSE CloseQuote(t, p + 1)

ParseString(t, p) ==
    IF p > Len(t) \/ t[p] # Quote THEN Fail
    ELSE LET c == CloseQuote(t, p + 1)
         IN  IF c = 0 THEN Fail ELSE Ok(Str(SubSeq(t, p + 1, c - 1)), c + 1)

RECURSIVE ParseValue(_, _)
RECURSIVE ParseElems(_, _, _)
RECURSIVE ParseMembers(_, _, _)

ParseValue(t, p) ==
    IF p > Len(t) THEN Fail
    ELSE IF t[p] = Quote THEN ParseString(t, p)
    ELSE IF t[p] = "1" THEN Ok(Num, p + 1)
    ELSE IF t[p] = "[" THEN
        LET q == SkipWs(t, p + 1)
        IN  IF q <= Len(t) /\ t[q] = "]" THEN Ok(Arr(<<>>), q + 1)
            ELSE ParseElems(t, q, <<>>)
    ELSE IF t[p] = "{" THEN
        LET q == SkipWs(t, p + 1)
        IN  IF q <= Len(t) /\ t[q] = "}" THEN Ok(Obj(<<>>), q + 1)
            ELSE ParseMembers(t, q, <<>>)
    ELSE Fail

\* the elements of an array from position p on, acc holding those before
ParseElems(t, p, acc) ==
    LET r == ParseValue(t, p)
    IN  IF ~r.ok THEN Fail
        ELSE LET q == SkipWs(t, r.p)
             IN  IF q > Len(t) THEN Fail
                 ELSE IF t[q] = "]" THEN Ok(Arr(Append(acc, r.v)), q + 1)
                 ELSE IF t[q] = "," THEN
                     ParseElems(t, SkipWs(t, q + 1), Append(acc, r.v))
                 ELSE Fail

\* the members of an object from position p on, acc holding those before
ParseMembers(t, p, acc) ==
    LET key == ParseString(t, p)
    IN  IF ~key.ok THEN Fail
        ELSE LET c == SkipWs(t, key.p)
             IN  IF c > Len(t) \/ t[c] # ":" THEN Fail
                 ELSE LET r == ParseValue(t, SkipWs(t, c + 1))
                      IN  IF ~r.ok THEN Fail
                          ELSE LET q == SkipWs(t, r.p)
                                   m == Put(acc, key.v.s, r.v)
                               IN  IF q > Len(t) THEN Fail
                                   ELSE IF t[q] = "}" THEN Ok(Obj(m), q + 1)
                                   ELSE IF t[q] = "," THEN
                                       ParseMembers(t, SkipWs(t, q + 1), m)
                                   ELSE Fail

\* json.loads(t): one value, whitespace around it, nothing else
JsonLoads(t) ==
    LET r == ParseValue(t, SkipWs(t, 1))
    IN  IF r.ok /\ SkipWs(t, r.p) = Len(t) + 1 THEN r ELSE Fail

(***************************************************************************)
(* The two regular expressions of _extract_json, each giving               *)
(* [found, g]: whether re.search matched and the text of group 1.          *)
(***************************************************************************)
NoMatch == [found |-> FALSE, g |-> <<>>]
Match(g) == [found |-> TRUE, g |-> g]

\* "$" without re.MULTILINE: the end of the text, or before a final newline
EndAnchor(t, p) == p = Len(t) + 1 \/ (p = Len(t) /\ t[p] = "\n")

\* the literal lit at position p
Lit(t, p, lit) ==
    /\ p + Len(lit) - 1 <= Len(t)
    /\ \A i \in 1..Len(lit) : t[p + i - 1] = lit[i]

BeginLit == <<"begin", ":", "math", ":", "display">>
EndLit == <<"end", ":", "math", ":", "display">>

\* the positions a run of \s* starting at p can end at
WsRun(t, p) == p..SkipWs(t, p)

\* the positions group 1 can start at after the fence at position i: past
\* the optional json tag and any run of whitespace
AfterFence(t, i) ==
    WsRun(t, i + 1) \cup
      (IF i + 1 <= Len(t) /\ t[i + 1] = "json" THEN WsRun(t, i + 2) ELSE {})

\* a closing fence follows position p, after any run of whitespace
FenceFollows(t, p) == \E f \in WsRun(t, p) : f <= Len(t) /\ t[f] = Fence

\* a fenced-block pattern whose group 1 is a bracketed span,
\*   fence (?:json)? \s* ( \[ .*? \] ) \s* fence
\* the leftmost opening fence, then the shortest span from "[" to a "]" that
\* a fence follows
FencedSearchBracketed(t) ==
    LET Closes(p) == {c \in (p + 1)..Len(t) : t[c] = "]" /\ FenceFollows(t, c + 1)}
        Opens(i) == {p \in AfterFence(t, i) :
                       p <= Len(t) /\ t[p] = "[" /\ Closes(p) # {}}
        starts == {i \in 1..Len(t) : t[i] = Fence /\ Opens(i) # {}}
    IN  IF starts = {} THEN NoMatch
        ELSE LET i == CHOOSE x \in starts : \A o \in starts : x <= o
                 p == CHOOSE x \in Opens(i) : TRUE
                 c == CHOOSE x \in Closes(p) : \A o \in Closes(p) : x <= o
             IN  Match(SubSeq(t, p, c))

\* re.search of the pattern
\*   fence (?:json)? \s* ( $ begin:math:display $ .*? $ end:math:display $ ) \s* fence
\* with re.DOTALL: in group 1 each "$" is the end anchor, so the group needs
\* the literal begin:math:display to start where the text ends
FencedSearch(t) ==
    LET Ends(p) == {e \in (p + Len(BeginLit))..(Len(t) + 1) :
                      /\ EndAnchor(t, e)
                      /\ Lit(t, e, EndLit)
                      /\ EndAnchor(t, e + Len(EndLit))
                      /\ FenceFollows(t, e + Len(EndLit))}
        Begins(i) == {p \in AfterFence(t, i) :
                        /\ EndAnchor(t, p)
                        /\ Lit(t, p, BeginLit)
                        /\ EndAnchor(t, p + Len(BeginLit))
                        /\ Ends(p) # {}}
        starts == {i \in 1..Len(t) : t[i] = Fence /\ Begins(i) # {}}
    IN  IF starts = {} THEN NoMatch
        ELSE LET i == CHOOSE x \in starts : \A o \in starts : x <= o
                 p == CHOOSE x \in Begins(i) : \A o \in Begins(i) : x >= o
                 e == CHOOSE x \in Ends(p) : \A o \in Ends(p) : x <= o
             IN  Match(SubSeq(t, p, e + Len(EndLit) - 1))

\* a lazy bracket pattern: from the first "[" to the first "]" after it
BracketSearchLazy(t) ==
    LET opens == {i \in 1..Len(t) : t[i] = "["}
    IN  IF opens = {} THEN NoMatch
        ELSE LET f == CHOOSE i \in opens : \A o \in opens : i <= o
                 closes == {i \in (f + 1)..Len(t) : t[i] = "]"}
             IN  IF closes = {} THEN NoMatch
                 ELSE Match(SubSeq(t, f, CHOOSE i \in closes : \A o \in closes : i <= o))

\* a bracket pattern that starts at the last "[" before the last "]"
BracketSearchInner(t) ==
    LET closes == {i \in 1..Len(t) : t[i] = "]"}
    IN  IF closes = {} THEN NoMatch
        ELSE LET l == CHOOSE i \in closes : \A o \in closes : i >= o
                 opens == {i \in 1..(l - 1) : t[i] = "["}
             IN  IF opens = {} THEN NoMatch
                 ELSE Match(SubSeq(t, CHOOSE i \in opens : \A o \in opens : i >= o, l))

\* a pattern that takes braces as well: from the first "[" or "{" to the last
\* "]" or "}"
BracketSearchBraces(t) ==
    LET opens == {i \in 1..Len(t) : t[i] \in {"[", "{"}}
        closes == {i \in 1..Len(t) : t[i] \in {"]", "}"}}
    IN  IF opens = {} \/ closes = {} THEN NoMatch
        ELSE LET f == CHOOSE i \in opens : \A o \in opens : i <= o
                 l == CHOOSE i \in closes : \A o \in closes : i >= o
             IN  IF f < l THEN Match(SubSeq(t, f, l)) ELSE NoMatch

\* re.search(r"(\[.*\])", text, re.DOTALL): from the first "[" to the last "]"
BracketSearch(t) ==
    LET opens == {i \in 1..Len(t) : t[i] = "["}
        closes == {i \in 1..Len(t) : t[i] = "]"}
    IN  IF opens = {} \/ closes = {} THEN NoMatch
        ELSE LET f == CHOOSE i \in opens : \A o \in opens : i <= o
                 l == CHOOSE i \in closes : \A o \in closes : i >= o
             IN  IF f < l THEN Match(SubSeq(t, f, l)) ELSE NoMatch

\* a test for the empty string that does not strip
IsEmpty(t) == t = <<>>

\* text.strip() is empty
IsBlank(t) == \A i \in 1..Len(t) : t[i] \in WS

(***************************************************************************)
(* Constants of the program                                                *)
(***************************************************************************)
\* the default of the client library, had max_retries not been given
DefaultMaxRetries == 1 + 1

\* OpenAI(max_retries=0): requests the client repeats by itself after a fault
ClientMaxRetries == 0
\* retry_delay = 1.5 seconds, in tenths of a second
RetryDelay == 15
\* the system message of call_llm
SystemMsg == "system_msg"
\* a key list that also asks for an id
RequiredKeysWithId == <<"title", "url", "summary", "published", "id">>

\* for k in ("title", "url", "summary", "published")
RequiredKeys == <<"title", "url", "summary", "published">>

None == [k |-> "none"]

\* the arguments of client.responses.create
Request(system_msg, user_prompt) ==
    [model |-> "gpt-5", tools |-> <<"web_search">>,
     system |-> system_msg, user |-> user_prompt]

\* a second attempt that sends the system message without the user prompt
RetryRequestNoPrompt(system_msg, user_prompt) == Request(system_msg, "")

\* the request of the second attempt
RetryRequest(system_msg, user_prompt) == Request(system_msg, user_prompt)

\* an except clause that catches every exception
CaughtAny(exc) == TRUE

\* the exceptions the except clause of _call_responses_with_retry catches:
\* httpx.ReadTimeout and httpx.ConnectTimeout are httpx.HTTPError subclasses
CaughtForRetry(exc) == exc \in {"ReadTimeout", "ConnectTimeout", "HTTPError"}

\* an except clause that catches the timeouts only
CaughtTimeouts(exc) == exc \in {"ReadTimeout", "ConnectTimeout"}

\* except httpx.HTTPError in call_llm
CaughtAfterRetry(exc) == exc \in {"ReadTimeout", "ConnectTimeout", "HTTPError"}

\* the first required key the dict lacks, in the order of the inner loop
\* a key loop that goes on after a missing key and reports the last one
LastMissing(it) ==
    LET missing == {j \in 1..Len(RequiredKeys) : ~HasKey(it, RequiredKeys[j])}
    IN  IF missing = {} THEN "" ELSE
        RequiredKeys[CHOOSE j \in missing : \A o \in missing : j >= o]

FirstMissing(it) ==
    LET missing == {j \in 1..Len(RequiredKeys) : ~HasKey(it, RequiredKeys[j])}
    IN  IF missing = {} THEN "" ELSE
        RequiredKeys[CHOOSE j \in missing : \A o \in missing : j <= o]

(***************************************************************************)
(* Inputs: bounded sets of prompts, transport outcomes and response texts  *)
(***************************************************************************)
MaxItems == 2
MaxRaw == 3

Prompts == {"prompt_a", "prompt_b"}

\* what an attempt can raise; APIError stands for every exception that is
\* not an httpx.HTTPError
Exceptions == {"ReadTimeout", "ConnectTimeout", "HTTPError", "APIError"}

Timestamp == "2025-01-01T00:00:00Z"
S(w) == Str(<<w>>)
Member(key, val) == <<<<key>>, val>>

GoodItem == Obj(<<Member("title", S("a")), Member("url", S("u")),
                  Member("summary", S("b")), Member("published", S(Timestamp))>>)
LaxItem == Obj(<<Member("published", S("a")), Member("extra", Num),
                 Member("summary", Arr(<<>>)), Member("url", S("u")),
                 Member("title", Str(<<>>))>>)
NoUrlItem == Obj(<<Member("title", S("a")), Member("summary", S("b")),
                   Member("published", S(Timestamp))>>)
NoTitleNoPublishedItem == Obj(<<Member("url", S("u")), Member("summary", S("b"))>>)

ItemShapes == {GoodItem, LaxItem, NoUrlItem, NoTitleNoPublishedItem, Num, Arr(<<S("a")>>)}

RECURSIVE SeqsUpTo(_, _)
SeqsUpTo(X, n) ==
    IF n = 0 THEN {<<>>}
    ELSE LET shorter == SeqsUpTo(X, n - 1)
         IN  shorter \cup {Append(q, x) : q \in shorter, x \in X}

ItemArrays == {Arr(e) : e \in SeqsUpTo(ItemShapes, MaxItems)}

\* values put inside fences and prose
SmallValues ==
    {Arr(e) : e \in SeqsUpTo(ItemShapes, 1)}
      \cup {Num, S("a"), S("["), GoodItem, Obj(<<Member("items", Arr(<<GoodItem>>))>>),
            Arr(<<Arr(<<>>), Num>>), Arr(<<S("]"), S("[")>>)}

\* the compact JSON text of a value
RECURSIVE Render(_)
RECURSIVE RenderElems(_, _)
RECURSIVE RenderMembers(_, _)
Render(v) ==
    CASE v.k = "str" -> <<Quote>> \o v.s \o <<Quote>>
      [] v.k = "num" -> <<"1">>
      [] v.k = "arr" -> <<"[">> \o RenderElems(v.e, 1) \o <<"]">>
      [] v.k = "obj" -> <<"{">> \o RenderMembers(v.m, 1) \o <<"}">>
RenderElems(e, i) ==
    IF i > Len(e) THEN <<>>
    ELSE Render(e[i]) \o (IF i < Len(e) THEN <<",">> ELSE <<>>) \o RenderElems(e, i + 1)
RenderMembers(m, i) ==
    IF i > Len(m) THEN <<>>
    ELSE <<Quote>> \o m[i][1] \o <<Quote, ":">> \o Render(m[i][2])
           \o (IF i < Len(m) THEN <<",">> ELSE <<>>) \o RenderMembers(m, i + 1)

\* a fenced block around a text: the fence, an optional json tag, whitespace
Fenced(tag, ws, body) ==
    <<Fence>> \o (IF tag THEN <<"json">> ELSE <<>>) \o ws \o body \o ws \o <<Fence>>
FencedTexts(body) ==
    {Fenced(tag, ws, body) : tag \in BOOLEAN, ws \in {<<>>, <<"\n">>}}

\* prose: words, spaces and punctuation, no bracket
Proses == {<<"x">>, <<"x", ":", " ">>, <<" ", "x", "\n">>}
ProseTexts(body) ==
    {a \o body \o b : a \in Proses \cup {<<>>}, b \in Proses \cup {<<>>}} \ {body}

RawSymbols == {"[", "]", "1", " ", "x", Fence}
RawTexts ==
    {t \in SeqsUpTo(RawSymbols, MaxRaw) :
       \A i \in 1..(Len(t) - 1) : t[i] = t[i + 1] => t[i] \notin {"1", "x"}}

\* texts put inside fences and prose: JSON texts and an array with a
\* trailing comma
Bodies == {Render(v) : v \in SmallValues} \cup {<<"[", "1", ",", "]">>}

BlankTexts == {<<>>, <<"\n">>, <<" ", "\n">>}

Payloads ==
    {Render(v) : v \in ItemArrays}
      \cup UNION {FencedTexts(b) : b \in Bodies}
      \cup UNION {ProseTexts(b) : b \in Bodies}
      \cup BlankTexts
      \cup {<<" ">> \o Render(v) \o <<"\n">> : v \in SmallValues}
      \cup {Render(v) \o <<" ", "x", " ">> \o Render(v) : v \in SmallValues}
      \cup RawTexts

\* json.loads on every text a run can hand it: a payload, or the group of a
\* pattern found in one; computed once for all runs
Loads ==
    [t \in Payloads \cup {FencedSearch(u).g : u \in Payloads}
                    \cup {BracketSearch(u).g : u \in Payloads} |-> JsonLoads(t)]

(***************************************************************************)
(* State                                                                   *)
(***************************************************************************)
VARIABLES
    pc,           \* the statement the run is at
    promptFile,   \* None, or the text of the file --prompt-file names
    sent,         \* the requests sent to the endpoint, in order
    slept,        \* the time spent in time.sleep, in tenths of a second
    outcomes,     \* per attempt: "ok" or the exception it raised
    resp,         \* the response envelope, or None
    text,         \* resp.output_text or ""
    tried,        \* the parse strategies _extract_json has started
    items,        \* the value _extract_json returned, or None
    idx,          \* the index i of the schema loop
    result,       \* the list call_llm returned to main, or None
    fault,        \* the fatal condition the run ended in, or None
    exit,         \* the exit status of the process, -1 while it runs
    feed,         \* the entries of the feed file written, or None
    log           \* the tags of the lines printed

vars == <<pc, promptFile, sent, slept, outcomes, resp, text, tried, items, idx,
          result, fault, exit, feed, log>>

Init ==
    /\ pc = "main"
    /\ promptFile \in {None} \cup {S(p) : p \in Prompts}
    /\ sent = <<>>
    /\ slept = 0
    /\ outcomes = <<>>
    /\ resp = None
    /\ text = <<>>
    /\ tried = <<>>
    /\ items = None
    /\ idx = 0
    /\ result = None
    /\ fault = None
    /\ exit = -1
    /\ feed = None
    /\ log = <<>>

NoFault(kind) == [k |-> "fault", kind |-> kind, index |-> -1, key |-> "", exc |-> ""]
ItemFault(kind, index, key) ==
    [k |-> "fault", kind |-> kind, index |-> index, key |-> key, exc |-> ""]
ParseFault(exc) ==
    [k |-> "fault", kind |-> "malformed", index |-> -1, key |-> "", exc |-> exc]

\* a fatal condition that prints its line and leaves with status 0
DieQuietly(f, line) ==
    /\ pc' = "done"
    /\ fault' = f
    /\ exit' = 0
    /\ log' = Append(log, line)

\* sys.exit(1) after printing an [error] line, or an uncaught exception
Die(f, line) ==
    /\ pc' = "done"
    /\ fault' = f
    /\ exit' = 1
    /\ log' = Append(log, line)

\* the requests one call of client.responses.create sends: the client repeats
\* a request that met a transport fault up to max_retries times
Sends(out) ==
    IF CaughtForRetry(out) THEN {1 + ClientMaxRetries} ELSE 1..(1 + ClientMaxRetries)

Responses ==
    {[k |-> "resp", output_text |-> o, meta |-> m] :
        o \in {None} \cup {Str(t) : t \in Payloads}, m \in BOOLEAN}

\* main up to the first print of _call_responses_with_retry
Main ==
    /\ pc = "main"
    /\ IF promptFile = None
       THEN Die(NoFault("no_prompt_file"), "error_prompt_file")
       ELSE /\ pc' = "request1"
            /\ log' = Append(log, "openai_call")
            /\ UNCHANGED <<fault, exit>>
    /\ UNCHANGED <<promptFile, sent, slept, outcomes, resp, text, tried, items,
                   idx, result, feed>>

\* the try block of _call_responses_with_retry
FirstAttempt ==
    /\ pc = "request1"
    /\ \E out \in {"ok"} \cup Exceptions :
         \E n \in Sends(out) :
           /\ sent' = sent \o [i \in 1..n |-> Request(SystemMsg, promptFile.s[1])]
           /\ outcomes' = Append(outcomes, out)
           /\ IF out = "ok"
              THEN /\ \E r \in Responses : resp' = r
                   /\ pc' = "log_resp"
                   /\ UNCHANGED <<fault, exit, log>>
              ELSE IF CaughtForRetry(out)
              THEN /\ pc' = "sleep"
                   /\ log' = Append(log, "warn_retry")
                   /\ UNCHANGED <<resp, fault, exit>>
              ELSE /\ Die(NoFault("uncaught"), "traceback")
                   /\ UNCHANGED resp
    /\ UNCHANGED <<promptFile, slept, text, tried, items, idx, result, feed>>

\* time.sleep(retry_delay)
Sleep ==
    /\ pc = "sleep"
    /\ slept' = slept + RetryDelay
    /\ pc' = "request2"
    /\ UNCHANGED <<promptFile, sent, outcomes, resp, text, tried, items, idx,
                   result, fault, exit, feed, log>>

\* the second and final attempt, and the except clause of call_llm around it
SecondAttempt ==
    /\ pc = "request2"
    /\ \E out \in {"ok"} \cup Exceptions :
         \E n \in Sends(out) :
           /\ sent' = sent \o [i \in 1..n |-> RetryRequest(SystemMsg, promptFile.s[1])]
           /\ outcomes' = Append(outcomes, out)
           /\ IF out = "ok"
              THEN /\ \E r \in Responses : resp' = r
                   /\ pc' = "log_resp"
                   /\ UNCHANGED <<fault, exit, log>>
              ELSE IF CaughtAfterRetry(out)
              THEN /\ Die(NoFault("transport"), "error_after_retry")
                   /\ UNCHANGED resp
              ELSE /\ Die(NoFault("uncaught"), "traceback")
                   /\ UNCHANGED resp
    /\ UNCHANGED <<promptFile, slept, text, tried, items, idx, result, feed>>

\* the log line without its try block: a failing read is an uncaught exception
LogResponseUnguarded ==
    /\ pc = "log_resp"
    /\ IF resp.meta
       THEN /\ log' = Append(log, "openai_response")
            /\ pc' = "check_empty"
            /\ UNCHANGED <<fault, exit>>
       ELSE Die(NoFault("uncaught"), "traceback")
    /\ UNCHANGED <<promptFile, sent, slept, outcomes, resp, text, tried, items,
                   idx, result, feed>>

\* try: print(response_id, model, usage) except Exception: pass
LogResponse ==
    /\ pc = "log_resp"
    /\ log' = IF resp.meta THEN Append(log, "openai_response") ELSE log
    /\ pc' = "check_empty"
    /\ UNCHANGED <<promptFile, sent, slept, outcomes, resp, text, tried, items,
                   idx, result, fault, exit, feed>>

\* an output text that is read inside the try block of the log line, and so
\* only when the identifier, model name and usage could be read
OutputTextInTry(r) ==
    IF r.output_text = None \/ ~r.meta THEN <<>> ELSE r.output_text.s

\* resp.output_text or ""
OutputText(r) == IF r.output_text = None THEN <<>> ELSE r.output_text.s

\* an empty payload answered by asking again instead of exiting
CheckEmptyAsksAgain ==
    /\ pc = "check_empty"
    /\ text' = OutputText(resp)
    /\ IF IsBlank(text')
       THEN /\ pc' = "request2"
            /\ UNCHANGED <<fault, exit, log>>
       ELSE /\ pc' = "direct"
            /\ UNCHANGED <<fault, exit, log>>
    /\ UNCHANGED <<promptFile, sent, slept, outcomes, resp, tried, items, idx,
                   result, feed>>

\* text = resp.output_text or ""; if not text.strip(): exit
CheckEmpty ==
    /\ pc = "check_empty"
    /\ text' = OutputText(resp)
    /\ IF IsBlank(text')
       THEN Die(NoFault("empty"), "error_empty")
       ELSE /\ pc' = "direct"
            /\ UNCHANGED <<fault, exit, log>>
    /\ UNCHANGED <<promptFile, sent, slept, outcomes, resp, tried, items, idx,
                   result, feed>>

\* _extract_json, first strategy: json.loads(text)
TryDirect ==
    /\ pc = "direct"
    /\ tried' = Append(tried, "direct")
    /\ LET r == Loads[text]
       IN  IF r.ok
           THEN /\ items' = r.v
                /\ pc' = "check_list"
           ELSE /\ pc' = "fenced"
                /\ UNCHANGED items
    /\ UNCHANGED <<promptFile, sent, slept, outcomes, resp, text, idx, result,
                   fault, exit, feed, log>>

\* _extract_json, second strategy: the fenced-block pattern, then json.loads
\* of its group; a JSONDecodeError of that json.loads leaves _extract_json
TryFenced ==
    /\ pc = "fenced"
    /\ tried' = Append(tried, "fenced")
    /\ LET m == FencedSearch(text)
           r == Loads[m.g]
       IN  IF ~m.found
           THEN /\ pc' = "bracket"
                /\ UNCHANGED <<items, fault, exit, log>>
           ELSE IF r.ok
           THEN /\ items' = r.v
                /\ pc' = "check_list"
                /\ UNCHANGED <<fault, exit, log>>
           ELSE /\ Die(ParseFault("json_decode"), "error_invalid_json")
                /\ UNCHANGED items
    /\ UNCHANGED <<promptFile, sent, slept, outcomes, resp, text, idx, result, feed>>

\* _extract_json, third strategy: the bracket pattern, then json.loads of its
\* group; without a match, JSONDecodeError("No valid JSON array found")
TryBracket ==
    /\ pc = "bracket"
    /\ tried' = Append(tried, "bracket")
    /\ LET m == BracketSearch(text)
           r == Loads[m.g]
       IN  IF ~m.found
           THEN /\ Die(ParseFault("no_array_found"), "error_invalid_json")
                /\ UNCHANGED items
           ELSE IF r.ok
           THEN /\ items' = r.v
                /\ pc' = "check_list"
                /\ UNCHANGED <<fault, exit, log>>
           ELSE /\ Die(ParseFault("json_decode"), "error_invalid_json")
                /\ UNCHANGED items
    /\ UNCHANGED <<promptFile, sent, slept, outcomes, resp, text, idx, result, feed>>

\* a list check that hands the parsed value to main without the schema loop
CheckListReturns ==
    /\ pc = "check_list"
    /\ IF IsList(items)
       THEN /\ pc' = "make_rss"
            /\ result' = items
            /\ UNCHANGED <<fault, exit, log>>
       ELSE /\ Die(NoFault("not_array"), "error_not_array")
            /\ UNCHANGED result
    /\ UNCHANGED <<promptFile, sent, slept, outcomes, resp, text, tried, items,
                   idx, feed>>

\* if not isinstance(items, list): exit
CheckList ==
    /\ pc = "check_list"
    /\ IF IsList(items)
       THEN /\ pc' = "validate"
            /\ UNCHANGED <<fault, exit, log>>
       ELSE Die(NoFault("not_array"), "error_not_array")
    /\ UNCHANGED <<promptFile, sent, slept, outcomes, resp, text, tried, items,
                   idx, result, feed>>

\* a schema check that takes url for optional
CheckOneUrlOptional(i, it) ==
    IF ~IsDict(it) THEN ItemFault("not_object", i, "")
    ELSE IF FirstMissing(it) \notin {"", "url"}
    THEN ItemFault("missing_key", i, FirstMissing(it))
    ELSE None

\* a schema check that looks at the keys of objects and lets other values pass
CheckOneKeysOnly(i, it) ==
    IF IsDict(it) /\ FirstMissing(it) # ""
    THEN ItemFault("missing_key", i, FirstMissing(it))
    ELSE None

\* a closed schema: an object with any key besides the required ones fails
CheckOneClosed(i, it) ==
    IF ~IsDict(it) THEN ItemFault("not_object", i, "")
    ELSE IF FirstMissing(it) # "" THEN ItemFault("missing_key", i, FirstMissing(it))
    ELSE IF Len(it.m) # Len(RequiredKeys) THEN ItemFault("extra_key", i, "")
    ELSE None

\* the fault of one item of the schema loop, None for an item that passes
CheckOne(i, it) ==
    IF ~IsDict(it) THEN ItemFault("not_object", i, "")
    ELSE IF FirstMissing(it) # "" THEN ItemFault("missing_key", i, FirstMissing(it))
    ELSE None

\* one turn of: for i, it in enumerate(items)
CheckItem ==
    /\ pc = "validate"
    /\ idx < Len(items.e)
    /\ LET f == CheckOne(idx, items.e[idx + 1])
       IN  IF f = None
           THEN /\ idx' = idx + 1
                /\ UNCHANGED <<pc, fault, exit, log>>
           ELSE /\ Die(f, "error_item")
                /\ UNCHANGED idx
    /\ UNCHANGED <<promptFile, sent, slept, outcomes, resp, text, tried, items,
                   result, feed>>

\* return items
Return ==
    /\ pc = "validate"
    /\ idx = Len(items.e)
    /\ result' = items
    /\ pc' = "make_rss"
    /\ UNCHANGED <<promptFile, sent, slept, outcomes, resp, text, tried, items,
                   idx, fault, exit, feed, log>>

\* bool(v) of a value json.loads made
Truthy(v) == v \notin {Str(<<>>), Arr(<<>>), Obj(<<>>)}

\* the feed entry make_rss builds from one item
Entry(it) ==
    [title |-> Get(it, "title"),
     link |-> IF Truthy(Get(it, "url")) THEN Get(it, "url") ELSE None,
     description |-> Get(it, "summary"),
     pubDate |-> IF Truthy(Get(it, "published")) THEN Get(it, "published") ELSE None]

\* the feed library takes text for title, link and description and a
\* timestamp with a time zone for pubDate, and raises on anything else
Renderable(e) ==
    /\ e.title.k = "str"
    /\ e.description.k = "str"
    /\ e.link.k \in {"str", "none"}
    /\ e.pubDate \in {None, S(Timestamp)}

\* the feed file fg.rss_file writes
Feed(entries) == [k |-> "feed", e |-> entries]

\* make_rss(items, Path(args.out)) and the end of main
MakeRss ==
    /\ pc = "make_rss"
    /\ LET entries == [i \in 1..Len(result.e) |-> Entry(result.e[i])]
       IN  IF \A i \in 1..Len(entries) : Renderable(entries[i])
           THEN /\ feed' = Feed(entries)
                /\ pc' = "done"
                /\ exit' = 0
                /\ log' = Append(log, "rss_wrote")
                /\ UNCHANGED fault
           ELSE /\ Die(NoFault("uncaught"), "traceback")
                /\ UNCHANGED feed
    /\ UNCHANGED <<promptFile, sent, slept, outcomes, resp, text, tried, items,
                   idx, result>>

Next ==
    \/ Main
    \/ FirstAttempt
    \/ Sleep
    \/ SecondAttempt
    \/ LogResponse
    \/ CheckEmpty
    \/ TryDirect
    \/ TryFenced
    \/ TryBracket
    \/ CheckList
    \/ CheckItem
    \/ Return
    \/ MakeRss

Spec == Init /\ [][Next]_vars

\* the same program when each statement that can run does run: a request
\* returns or faults within the timeout, and sleep returns
FairSpec == Spec /\ WF_vars(Next)

(***************************************************************************)
(* Properties                                                              *)
(***************************************************************************)
\* the transport-level faults: timeouts and the generic httpx.HTTPError
TransportFaults == {"ReadTimeout", "ConnectTimeout", "HTTPError"}

\* _call_responses_with_retry has returned or raised
CallOver == pc \notin {"main", "request1", "sleep", "request2"}

\* _extract_json has returned or raised
ExtractionOver == tried # <<>> /\ pc \notin {"direct", "fenced", "bracket"}

\* C1: in every run, whatever the transport outcomes, at most two requests
\* are sent to the endpoint: the first attempt and at most one retry.
C1_AtMostTwoRequests == Len(sent) <= 2 /\ Len(outcomes) <= 2

C1_Witness == pc = "done" /\ Len(sent) = 2 /\ outcomes = <<"HTTPError", "APIError">>

\* C2: when the first request fails with a transport fault and the second
\* succeeds, the call returns the response of the second attempt, exactly two
\* requests were sent, the delay was slept once before the second one, and
\* the two requests are equal: model, tools, system message and user prompt.
C2_RetrySucceeds ==
    (/\ Len(outcomes) = 2
     /\ outcomes[1] \in TransportFaults
     /\ outcomes[2] = "ok")
    => /\ CallOver
       /\ resp # None
       /\ (fault # None => fault.kind \notin {"transport", "no_prompt_file"})
       /\ Len(sent) = 2
       /\ slept = RetryDelay
       /\ sent[1] = sent[2]
       /\ sent[1] = [model |-> "gpt-5", tools |-> <<"web_search">>,
                     system |-> SystemMsg, user |-> promptFile.s[1]]

C2_Witness ==
    /\ outcomes = <<"ReadTimeout", "ok">>
    /\ pc = "done"
    /\ exit = 0
    /\ feed # None

\* C3: when both requests fail with a transport fault, the run ends with
\* exit status 1 after exactly two requests; nothing is extracted and no feed
\* is written.
C3_RetryFails ==
    (/\ Len(outcomes) = 2
     /\ outcomes[1] \in TransportFaults
     /\ outcomes[2] \in TransportFaults)
    => /\ pc = "done"
       /\ exit = 1
       /\ fault # None
       /\ fault.kind = "transport"
       /\ Len(sent) = 2
       /\ resp = None
       /\ tried = <<>>
       /\ items = None
       /\ result = None
       /\ feed = None

C3_Witness ==
    /\ outcomes = <<"HTTPError", "ReadTimeout">>
    /\ pc = "done"
    /\ exit = 1

\* C4: a second request is sent only after a first attempt that ended in a
\* transport fault; a first attempt that raised another error, or that
\* succeeded (whatever the content it returned), is the only request.
C4_RetryOnlyOnTransportFault ==
    /\ Len(sent) >= 2 => outcomes[1] \in TransportFaults
    /\ (Len(outcomes) >= 1 /\ outcomes[1] \notin TransportFaults) =>
          /\ Len(sent) = 1
          /\ Len(outcomes) = 1
          /\ slept = 0

C4_Witness ==
    /\ pc = "done"
    /\ outcomes = <<"ok">>
    /\ fault # None
    /\ fault.kind = "malformed"
    /\ Len(sent) = 1

\* an absent, empty or whitespace-only output_text
BlankPayload(r) ==
    \/ r.output_text = None
    \/ \A i \in 1..Len(r.output_text.s) : r.output_text.s[i] \in {" ", "\n"}

\* C5: once an absent, empty or whitespace-only payload has been read, the
\* run has ended in the empty-payload fault with exit status 1, and no parse
\* strategy was started.
C5_EmptyPayload ==
    (CallOver /\ resp # None /\ pc \notin {"log_resp", "check_empty"}
       /\ BlankPayload(resp))
    => /\ pc = "done"
       /\ exit = 1
       /\ fault # None
       /\ fault.kind = "empty"
       /\ tried = <<>>
       /\ items = None
       /\ result = None
       /\ feed = None

C5_Witness ==
    /\ pc = "done"
    /\ resp # None
    /\ resp.output_text = Str(<<" ", "\n">>)
    /\ fault # None
    /\ fault.kind = "empty"

\* what each strategy gives on a text, taken alone
DirectOk(t) == JsonLoads(t).ok
FencedOk(t) == FencedSearch(t).found /\ JsonLoads(FencedSearch(t).g).ok
BracketOk(t) == BracketSearch(t).found /\ JsonLoads(BracketSearch(t).g).ok

IsFencedBlock(t) == Len(t) >= 2 /\ t[1] = Fence /\ t[Len(t)] = Fence
Interior(t) == SubSeq(t, IF Len(t) >= 3 /\ t[2] = "json" THEN 3 ELSE 2, Len(t) - 1)

\* C7 as stated: for a payload that is one fenced block, optionally tagged
\* json, whose interior is valid JSON of any kind, the extraction succeeds
\* with the value json.loads gives for the interior.
C7_FencedAnyJson ==
    (ExtractionOver /\ IsFencedBlock(text) /\ JsonLoads(Interior(text)).ok)
    => items = JsonLoads(Interior(text)).v

\* C7, amended: for a payload that is one fenced block, optionally tagged
\* json, whose interior is a valid JSON array, the extraction succeeds with
\* the value json.loads gives for the interior.
C7_FencedArray ==
    (/\ ExtractionOver
     /\ IsFencedBlock(text)
     /\ JsonLoads(Interior(text)).ok
     /\ JsonLoads(Interior(text)).v.k = "arr")
    => /\ items = JsonLoads(Interior(text)).v
       /\ (fault # None => fault.kind # "malformed")

C7_Witness ==
    /\ pc = "done"
    /\ exit = 0
    /\ text = <<Fence, "json", "\n">> \o Render(Arr(<<GoodItem>>)) \o <<"\n", Fence>>
    /\ items = Arr(<<GoodItem>>)

\* prose: no bracket, brace or quote; and prose that is not only whitespace
JsonDelims == {"[", "]", "{", "}", Quote}
IsProse(s) == \A i \in 1..Len(s) : s[i] \notin JsonDelims
HasWord(s) == \E i \in 1..Len(s) : s[i] \notin {" ", "\n"}
FirstOpen(t) ==
    LET o == {i \in 1..Len(t) : t[i] = "["}
    IN  IF o = {} THEN 0 ELSE CHOOSE i \in o : \A j \in o : i <= j
LastClose(t) ==
    LET c == {i \in 1..Len(t) : t[i] = "]"}
    IN  IF c = {} THEN 0 ELSE CHOOSE i \in c : \A j \in c : i >= j
\* prose, then one valid JSON array, then prose
ProseArrayProse(t) ==
    LET f == FirstOpen(t)
        l == LastClose(t)
        before == SubSeq(t, 1, f - 1)
        after == SubSeq(t, l + 1, Len(t))
    IN  /\ 0 < f /\ f < l
        /\ IsProse(before) /\ IsProse(after)
        /\ HasWord(before) \/ HasWord(after)
        /\ JsonLoads(SubSeq(t, f, l)).ok

\* C8: for a payload made of prose, one valid JSON array and prose, with no
\* "[" before the array and no "]" after it, the extraction falls through to
\* the bracket strategy and returns exactly that array: the span from the
\* first "[" to the last "]".
C8_ProseAroundArray ==
    (ExtractionOver /\ ProseArrayProse(text))
    => /\ tried = <<"direct", "fenced", "bracket">>
       /\ items = JsonLoads(SubSeq(text, FirstOpen(text), LastClose(text))).v

C8_Witness ==
    /\ pc = "done"
    /\ exit = 0
    /\ text = <<"x", ":", " ">> \o Render(Arr(<<GoodItem>>)) \o <<" ", "x", "\n">>
    /\ result = Arr(<<GoodItem>>)

\* an object that has the four keys, and the arrays of such objects
ReqKeySet == {"title", "url", "summary", "published"}
HasMember(v, key) == \E i \in 1..Len(v.m) : v.m[i][1] = <<key>>
ValidItem(v) == v.k = "obj" /\ \A key \in ReqKeySet : HasMember(v, key)
LacksKey(v) == v.k = "obj" /\ \E key \in ReqKeySet : ~HasMember(v, key)
WellFormedArrays ==
    {v \in ItemArrays : \A i \in 1..Len(v.e) : ValidItem(v.e[i])}

\* C9: for a payload that is the JSON text of an array of objects that have
\* the keys title, url, summary and published, call_llm returns the list of
\* those objects: the same length, the same order, every value unchanged.
C9_RoundTrip ==
    \A v \in WellFormedArrays :
        (/\ pc \in {"make_rss", "done"}
         /\ text \in {Render(v), <<" ">> \o Render(v) \o <<"\n">>})
        => /\ result = v
           /\ Len(result.e) = Len(v.e)
           /\ \A i \in 1..Len(v.e) : result.e[i] = v.e[i]

C9_Witness ==
    /\ pc = "done"
    /\ text = Render(Arr(<<LaxItem, GoodItem>>))
    /\ result = Arr(<<LaxItem, GoodItem>>)

LastAttemptFailed == outcomes # <<>> /\ outcomes[Len(outcomes)] # "ok"
Unparseable(t) == ~DirectOk(t) /\ ~FencedOk(t) /\ ~BracketOk(t)
ShapeOk(v) == v.k = "arr" /\ \A i \in 1..Len(v.e) : ValidItem(v.e[i])

\* C12: the exit status is set once, when the run ends, and is 0 or 1.  It
\* is 0 only when no fault occurred and the feed was written from a response
\* that was received, parsed and validated in full.  It is 1 when the prompt
\* file is missing (and then no request was sent), when the last attempt
\* faulted, when the payload is blank or unparseable, and when the parsed
\* value fails the shape checks.
C12_ExitStatus ==
    /\ pc # "done" => exit = -1 /\ fault = None
    /\ pc = "done" =>
         /\ exit \in {0, 1}
         /\ exit = 0 <=> fault = None
         /\ exit = 0 =>
              /\ promptFile # None
              /\ ~LastAttemptFailed
              /\ resp # None
              /\ ~BlankPayload(resp)
              /\ ~Unparseable(text)
              /\ items # None /\ ShapeOk(items)
              /\ result = items
              /\ feed # None
         /\ promptFile = None =>
              exit = 1 /\ fault.kind = "no_prompt_file" /\ sent = <<>>
         /\ LastAttemptFailed =>
              exit = 1 /\ fault.kind \in {"transport", "uncaught"}
         /\ (resp # None /\ BlankPayload(resp)) =>
              exit = 1 /\ fault.kind = "empty"
         /\ (resp # None /\ ~BlankPayload(resp) /\ Unparseable(text)) =>
              exit = 1 /\ fault.kind = "malformed"
         /\ (items # None /\ ~ShapeOk(items)) =>
              exit = 1 /\ fault.kind \in {"not_array", "not_object", "missing_key"}

C12_Witness ==
    /\ pc = "done"
    /\ exit = 1
    /\ promptFile = None
    /\ sent = <<>>
    /\ log = <<"error_prompt_file">>

\* the place of each statement in the order request, retry, parse,
\* validate, render
Rank(p) ==
    CASE p = "main" -> 0
      [] p = "request1" -> 1
      [] p = "sleep" -> 2
      [] p = "request2" -> 3
      [] p = "log_resp" -> 4
      [] p = "check_empty" -> 5
      [] p = "direct" -> 6
      [] p = "fenced" -> 7
      [] p = "bracket" -> 8
      [] p = "check_list" -> 9
      [] p = "validate" -> 10
      [] p = "make_rss" -> 11
      [] p = "done" -> 12

\* C13: a feed exists only after the last attempt succeeded, the payload was
\* parsed, every element was validated and the list was returned, and never
\* in a run that ended in a fault; the list is returned only after every
\* element passed; and every step moves forward in the order request, retry,
\* parse, validate, render (the schema loop staying in place while it
\* advances its index).
C13_FeedLast ==
    /\ [](/\ feed # None =>
               /\ pc = "done"
               /\ fault = None
               /\ outcomes # <<>> /\ outcomes[Len(outcomes)] = "ok"
               /\ tried # <<>>
               /\ result # None
               /\ Len(feed.e) = Len(result.e)
          /\ fault # None => feed = None
          /\ result # None =>
               /\ result = items
               /\ ShapeOk(items)
               /\ idx = Len(items.e)
               /\ pc \in {"make_rss", "done"})
    /\ [][\/ Rank(pc') > Rank(pc)
          \/ (pc = "validate" /\ pc' = "validate" /\ idx' = idx + 1)]_vars

C13_Witness ==
    /\ pc = "done"
    /\ exit = 0
    /\ feed # None
    /\ Len(feed.e) = 2
    /\ outcomes = <<"HTTPError", "ok">>

\* the payload of a response: its output text, empty when absent
PayloadOf(r) == IF r.output_text = None THEN <<>> ELSE r.output_text.s

\* the lowest index (from 0) of an element that is no object or lacks a
\* required key, -1 when there is none; and the first key an object lacks, in
\* the order title, url, summary, published
FirstInvalid(v) ==
    LET bad == {i \in 1..Len(v.e) : ~ValidItem(v.e[i])}
    IN  IF bad = {} THEN -1 ELSE (CHOOSE i \in bad : \A j \in bad : i <= j) - 1
FirstLacking(it) ==
    IF ~HasMember(it, "title") THEN "title"
    ELSE IF ~HasMember(it, "url") THEN "url"
    ELSE IF ~HasMember(it, "summary") THEN "summary"
    ELSE "published"

\* the outcome of extraction and validation as a function of the payload
\* alone: the parsed value, the list returned and the fault
ExtractOf(t) ==
    IF JsonLoads(t).ok THEN [ok |-> TRUE, v |-> JsonLoads(t).v, exc |-> ""]
    ELSE IF FencedSearch(t).found THEN
        (IF JsonLoads(FencedSearch(t).g).ok
         THEN [ok |-> TRUE, v |-> JsonLoads(FencedSearch(t).g).v, exc |-> ""]
         ELSE [ok |-> FALSE, v |-> None, exc |-> "json_decode"])
    ELSE IF BracketSearch(t).found THEN
        (IF JsonLoads(BracketSearch(t).g).ok
         THEN [ok |-> TRUE, v |-> JsonLoads(BracketSearch(t).g).v, exc |-> ""]
         ELSE [ok |-> FALSE, v |-> None, exc |-> "json_decode"])
    ELSE [ok |-> FALSE, v |-> None, exc |-> "no_array_found"]
ShapeFaultOf(v) ==
    IF v.k # "arr"
    THEN [k |-> "fault", kind |-> "not_array", index |-> -1, key |-> "", exc |-> ""]
    ELSE IF FirstInvalid(v) = -1 THEN None
    ELSE LET it == v.e[FirstInvalid(v) + 1]
         IN  IF it.k # "obj"
             THEN [k |-> "fault", kind |-> "not_object", index |-> FirstInvalid(v),
                   key |-> "", exc |-> ""]
             ELSE [k |-> "fault", kind |-> "missing_key", index |-> FirstInvalid(v),
                   key |-> FirstLacking(it), exc |-> ""]
OutcomeOf(t) ==
    IF \A i \in 1..Len(t) : t[i] \in {" ", "\n"}
    THEN [items |-> None, result |-> None,
          fault |-> [k |-> "fault", kind |-> "empty", index |-> -1, key |-> "",
                     exc |-> ""]]
    ELSE IF ~ExtractOf(t).ok
    THEN [items |-> None, result |-> None,
          fault |-> [k |-> "fault", kind |-> "malformed", index |-> -1, key |-> "",
                     exc |-> ExtractOf(t).exc]]
    ELSE [items |-> ExtractOf(t).v,
          result |-> IF ShapeFaultOf(ExtractOf(t).v) = None
                     THEN ExtractOf(t).v ELSE None,
          fault |-> ShapeFaultOf(ExtractOf(t).v)]

\* C14: the outcome of extraction and validation is a function of the text
\* payload alone: in every run, whatever the prompt, the attempts and the
\* log, a payload ends in the same parsed value and the same returned list or
\* the same fault.
C14_PureExtraction ==
    (resp # None /\ pc \in {"make_rss", "done"})
    => LET o == OutcomeOf(PayloadOf(resp))
       IN  /\ items = o.items
           /\ result = o.result
           /\ o.fault # None => fault = o.fault
           /\ o.fault = None => (fault = None \/ fault.kind = "uncaught")

C14_Witness ==
    /\ pc = "done"
    /\ outcomes = <<"ReadTimeout", "ok">>
    /\ resp # None
    /\ resp.meta = FALSE
    /\ PayloadOf(resp) = <<"x">> \o Render(Arr(<<GoodItem>>))
    /\ result = Arr(<<GoodItem>>)

\* C15: validation of a parsed value succeeds exactly when the value is an
\* array whose elements are all objects with the keys title, url, summary
\* and published, and it then returns the value as it is; the length of the
\* array (zero included), further keys and the values of the fields do not
\* matter.
C15_MinimalValidation ==
    (items # None /\ pc \in {"make_rss", "done"})
    => /\ result # None <=> ShapeOk(items)
       /\ result # None => result = items
       /\ items = Arr(<<>>) => result = Arr(<<>>)

C15_Witness ==
    /\ pc = "done"
    /\ items = Arr(<<LaxItem>>)
    /\ result = Arr(<<LaxItem>>)

\* the end of a run as a function of the attempts and the payload: the exit
\* status, the fault kind, the list returned and the feed written
FinalOf(outs, t) ==
    IF outs[Len(outs)] # "ok"
    THEN [exit |-> 1, result |-> None, feed |-> None,
          kind |-> IF outs[Len(outs)] \in TransportFaults /\ Len(outs) = 2
                   THEN "transport" ELSE "uncaught"]
    ELSE IF OutcomeOf(t).fault # None
    THEN [exit |-> 1, result |-> None, feed |-> None, kind |-> OutcomeOf(t).fault.kind]
    ELSE LET es == [i \in 1..Len(OutcomeOf(t).result.e) |->
                      Entry(OutcomeOf(t).result.e[i])]
         IN  IF \A i \in 1..Len(es) : Renderable(es[i])
             THEN [exit |-> 0, result |-> OutcomeOf(t).result,
                   feed |-> [k |-> "feed", e |-> es], kind |-> ""]
             ELSE [exit |-> 1, result |-> OutcomeOf(t).result, feed |-> None,
                   kind |-> "uncaught"]

\* C16: the end of a run (exit status, fault, returned list, feed) is a
\* function of the attempts and the payload: it is the same whether the log
\* line after the call was printed or the read of the identifier, model name
\* and usage failed, and the two cases differ in that one log line only.
C16_LogDoesNotMatter ==
    (pc = "done" /\ outcomes # <<>>)
    => LET f == FinalOf(outcomes, IF resp = None THEN <<>> ELSE PayloadOf(resp))
       IN  /\ exit = f.exit
           /\ result = f.result
           /\ feed = f.feed
           /\ fault = None <=> f.kind = ""
           /\ fault # None => fault.kind = f.kind
           /\ resp # None =>
                (\E i \in 1..Len(log) : log[i] = "openai_response") <=> resp.meta

C16_Witness ==
    /\ pc = "done"
    /\ exit = 0
    /\ resp # None
    /\ resp.meta = FALSE
    /\ feed # None
    /\ log = <<"openai_call", "rss_wrote">>

\* the steps of the request phase and the steps after a response arrived
RequestSteps == {"main", "request1", "sleep", "request2"}
ParseSteps == {"log_resp", "check_empty", "direct", "fenced", "bracket",
               "check_list", "validate", "make_rss"}

\* C17: when each request returns or faults, every run ends, and it ends in
\* exactly one final state: success (status 0, no fault) or one fatal fault
\* (status 1); no step leads from parsing or validation back to a request,
\* and nothing runs after the final state.
C17_Terminates ==
    /\ <>(pc = "done")
    /\ [](pc = "done" => \/ (exit = 0 /\ fault = None /\ feed # None)
                         \/ (exit = 1 /\ fault # None /\ feed = None))
    /\ [](pc # "done" => exit = -1 /\ fault = None)
    /\ [][(pc \in ParseSteps) => ~(pc' \in RequestSteps)]_vars
    /\ [][pc # "done"]_vars

C17_Witness ==
    /\ pc = "done"
    /\ Len(outcomes) = 2
    /\ slept = RetryDelay
    /\ exit = 0

\* C18: of several invalid elements the fault reported is that of the one
\* with the lowest index; an element that is no object is reported as such
\* whatever it lacks; the key reported is the first one missing in the order
\* title, url, summary, published; and the loop stops there: its index stays
\* at the faulty element and the run is over.
C18_FirstFaultOnly ==
    (fault # None /\ fault.kind \in {"not_object", "missing_key"})
    => /\ pc = "done"
       /\ items # None /\ items.k = "arr"
       /\ fault.index = FirstInvalid(items)
       /\ idx = fault.index
       /\ \A i \in 1..fault.index : ValidItem(items.e[i])
       /\ fault.kind = "not_object" <=> items.e[fault.index + 1].k # "obj"
       /\ fault.kind = "missing_key" => fault.key = FirstLacking(items.e[fault.index + 1])

C18_Witness ==
    /\ pc = "done"
    /\ items = Arr(<<NoTitleNoPublishedItem, Num>>)
    /\ fault # None
    /\ fault.kind = "missing_key"
    /\ fault.index = 0
    /\ fault.key = "title"

\* C19: the fault "not an array" never follows the bracket pattern.  A
\* payload that is valid JSON of another kind (an object around an array of
\* valid items, say) is taken by the direct parse, no other strategy is
\* started, and the run ends in "not an array" with nothing returned; a
\* value the bracket pattern led to is an array.
C19_NotArrayOnlyDirect ==
    /\ (fault # None /\ fault.kind = "not_array")
       => /\ tried # <<>>
          /\ tried[Len(tried)] # "bracket"
          /\ items # None /\ items.k # "arr"
    /\ (ExtractionOver /\ JsonLoads(text).ok /\ JsonLoads(text).v.k # "arr")
       => /\ tried = <<"direct">>
          /\ items = JsonLoads(text).v
          /\ result = None
          /\ pc \in {"check_list", "done"}
          /\ pc = "done" => (fault # None /\ fault.kind = "not_array" /\ exit = 1)
    /\ (tried # <<>> /\ tried[Len(tried)] = "bracket" /\ items # None)
       => items.k = "arr"

C19_Witness ==
    /\ pc = "done"
    /\ text = <<" ">> \o Render(Obj(<<Member("items", Arr(<<GoodItem>>))>>)) \o <<"\n">>
    /\ tried = <<"direct">>
    /\ fault # None
    /\ fault.kind = "not_array"

\* the pairs <<c, o>> such that the text from the first "[" to position c and
\* the text from position o to the last "]" are valid JSON arrays and the
\* text between them is prose
ArrayPairs(t) ==
    LET f == FirstOpen(t)
        l == LastClose(t)
        closes == {c \in (f + 1)..(l - 1) : t[c] = "]"}
        opens == {o \in (f + 1)..(l - 1) : t[o] = "["}
    IN  IF f = 0 THEN {}
        ELSE {q \in closes \X opens :
                /\ q[1] + 1 < q[2]
                /\ IsProse(SubSeq(t, q[1] + 1, q[2] - 1))
                /\ HasWord(SubSeq(t, q[1] + 1, q[2] - 1))
                /\ JsonLoads(SubSeq(t, f, q[1])).ok
                /\ JsonLoads(SubSeq(t, q[2], l)).ok}

\* C20: when the direct parse fails on a payload holding two arrays with
\* prose between them, the only text the bracket strategy parses is the one
\* from the first "[" to the last "]"; when that text is no valid JSON the
\* run ends in the malformed-payload fault; and neither array is ever
\* returned on its own.
C20_TwoArrays ==
    (ExtractionOver /\ ~JsonLoads(text).ok /\ ArrayPairs(text) # {})
    => LET span == SubSeq(text, FirstOpen(text), LastClose(text))
       IN  /\ tried = <<"direct", "fenced", "bracket">>
           /\ IF JsonLoads(span).ok
              THEN items = JsonLoads(span).v
              ELSE /\ items = None
                   /\ result = None
                   /\ pc = "done"
                   /\ fault # None
                   /\ fault.kind = "malformed"
                   /\ exit = 1
           /\ \A q \in ArrayPairs(text) :
                /\ items # JsonLoads(SubSeq(text, FirstOpen(text), q[1])).v
                /\ items # JsonLoads(SubSeq(text, q[2], LastClose(text))).v

C20_Witness ==
    /\ pc = "done"
    /\ text = Render(Arr(<<GoodItem>>)) \o <<" ", "x", " ">> \o Render(Arr(<<GoodItem>>))
    /\ tried = <<"direct", "fenced", "bracket">>
    /\ fault # None
    /\ fault.kind = "malformed"

====
